---- MODULE Spec2Model ----
(***************************************************************************)
(* Actor and Critic networks of model.py (DDPG): construction, weight      *)
(* initialisation from the process-wide random generator, and the forward  *)
(* computations, with the batch-normalisation stage of the Critic.         *)
(*                                                                         *)
(* Numbers: a tensor element is a fixed-point number, an integer count of  *)
(* 1/Scale, of magnitude at most FMax, or one of PInf, NInf, NaN.  Every   *)
(* arithmetic result is rounded to that grid, as a float32 result is       *)
(* rounded to the float32 grid; a sum beyond FMax overflows to an          *)
(* infinity.  The generator is a linear congruential generator, advanced   *)
(* once per sample, in place of torch's Mersenne twister.                  *)
(***************************************************************************)
EXTENDS Integers, Sequences, FiniteSets, TLC

VARIABLES
    sizes,    \* the (state_size, action_size, fc1_units, fc2_units) this run builds networks with
    rng,      \* state of torch's process-wide default generator
    nets,     \* slot -> the network object held there (NoNet before construction)
    initial,  \* slot -> the linear layers' weights as the constructor left them
    resets,   \* slot -> number of reset_parameters() calls made after the constructor returned
    drawnAt,  \* slot -> generator state at the start of the last reset_parameters() call
    last,     \* the last operation performed
    result,   \* what the last sequential forward call returned or raised
    calls,    \* thread -> the forward call that thread is in
    ops,      \* number of constructions and reset_parameters() calls made
    passes    \* number of training-mode Critic.forward calls made

vars == <<sizes, rng, nets, initial, resets, drawnAt, last, result, calls, ops, passes>>

-----------------------------------------------------------------------------
(* Bounds of the model *)

\* constructions and reset_parameters() calls in one run
MaxOps == 4
\* rows in a batch handed to forward
MaxBatch == 2
\* training-mode forward calls made on Critics
MaxPasses == 2

\* the seeds handed to the constructors
Seeds == {0, 1}

\* the sizes networks are built with: state_size, action_size, fc1_units
\* (fcs1_units for the Critic), fc2_units
Sizes ==
    { [state_size |-> 2, action_size |-> 1, fc1_units |-> 2, fc2_units |-> 1],
      [state_size |-> 1, action_size |-> 2, fc1_units |-> 2, fc2_units |-> 2],
      [state_size |-> 2, action_size |-> 2, fc1_units |-> 1, fc2_units |-> 2],
      [state_size |-> 3, action_size |-> 1, fc1_units |-> 2, fc2_units |-> 3] }

ActorSlots == {"actor_local", "actor_target"}
CriticSlots == {"critic_local"}
Slots == ActorSlots \cup CriticSlots

-----------------------------------------------------------------------------
(* Tensor elements *)

Scale == 1000
FMax == 1000000000
PInf == FMax + 1
NInf == -(FMax + 1)
NaN == FMax + 2

Abs(x) == IF x < 0 THEN -x ELSE x

Sign(x) == IF x < 0 THEN -1 ELSE IF x > 0 THEN 1 ELSE 0

Overflow(x) == IF x > FMax THEN PInf ELSE IF x < -FMax THEN NInf ELSE x

FAdd(a, b) ==
    IF a = NaN \/ b = NaN THEN NaN
    ELSE IF a = PInf THEN (IF b = NInf THEN NaN ELSE PInf)
    ELSE IF a = NInf THEN (IF b = PInf THEN NaN ELSE NInf)
    ELSE IF b = PInf \/ b = NInf THEN b
    ELSE Overflow(a + b)

\* w * x for a finite parameter w (|w| <= 2 * Scale) and any element x, the
\* product rounded toward zero
FMul(w, x) ==
    IF x = NaN THEN NaN
    ELSE IF x = PInf \/ x = NInf
         THEN (IF w = 0 THEN NaN
               ELSE IF Sign(w) * Sign(x) > 0 THEN PInf ELSE NInf)
    ELSE LET q == Abs(x) \div Scale
             r == Abs(x) % Scale
             m == Abs(w) * q + (Abs(w) * r) \div Scale
         IN  Overflow(Sign(w) * Sign(x) * m)

RECURSIVE SqrtSearch(_, _, _)
SqrtSearch(n, lo, hi) ==
    IF lo >= hi THEN lo
    ELSE LET mid == (lo + hi + 1) \div 2
         IN  IF mid * mid <= n THEN SqrtSearch(n, mid, hi)
             ELSE SqrtSearch(n, lo, mid - 1)

\* floor of the square root of n, 0 <= n < 2^30
ISqrt(n) == SqrtSearch(n, 0, 32767)

\* 1. / np.sqrt(n) on the grid
InvSqrt(n) == ISqrt((Scale * Scale) \div n)

\* TanhTable[k] is the least x >= 0 whose tanh rounds to k/Scale or more
TanhTable == <<
    1, 2, 3, 4, 5, 6, 7, 8, 9, 10, 11, 12, 13, 14, 15, 16, 17, 18, 19, 20,
    21, 22, 23, 24, 25, 26, 27, 28, 29, 30, 31, 32, 33, 34, 35, 36, 37, 38, 39, 40,
    41, 42, 43, 44, 45, 46, 47, 48, 49, 50, 51, 52, 53, 54, 55, 56, 57, 58, 59, 60,
    61, 62, 63, 64, 65, 66, 67, 68, 69, 70, 71, 72, 73, 74, 75, 76, 77, 78, 79, 80,
    81, 82, 83, 84, 85, 86, 87, 88, 89, 90, 91, 92, 93, 94, 95, 96, 97, 98, 99, 100,
    101, 102, 103, 104, 105, 106, 107, 108, 109, 110, 111, 112, 113, 114, 116, 117, 118, 119, 120, 121,
    122, 123, 124, 125, 126, 127, 128, 129, 130, 131, 132, 133, 134, 135, 136, 137, 138, 139, 140, 141,
    142, 143, 144, 145, 146, 147, 148, 149, 150, 151, 152, 153, 154, 155, 156, 157, 158, 159, 160, 161,
    162, 163, 164, 165, 167, 168, 169, 170, 171, 172, 173, 174, 175, 176, 177, 178, 179, 180, 181, 182,
    183, 184, 185, 186, 187, 188, 189, 190, 191, 192, 193, 194, 195, 196, 198, 199, 200, 201, 202, 203,
    204, 205, 206, 207, 208, 209, 210, 211, 212, 213, 214, 215, 216, 217, 218, 219, 220, 222, 223, 224,
    225, 226, 227, 228, 229, 230, 231, 232, 233, 234, 235, 236, 237, 238, 239, 241, 242, 243, 244, 245,
    246, 247, 248, 249, 250, 251, 252, 253, 254, 255, 256, 258, 259, 260, 261, 262, 263, 264, 265, 266,
    267, 268, 269, 270, 271, 273, 274, 275, 276, 277, 278, 279, 280, 281, 282, 283, 284, 285, 287, 288,
    289, 290, 291, 292, 293, 294, 295, 296, 297, 299, 300, 301, 302, 303, 304, 305, 306, 307, 308, 309,
    311, 312, 313, 314, 315, 316, 317, 318, 319, 320, 322, 323, 324, 325, 326, 327, 328, 329, 330, 332,
    333, 334, 335, 336, 337, 338, 339, 341, 342, 343, 344, 345, 346, 347, 348, 350, 351, 352, 353, 354,
    355, 356, 357, 359, 360, 361, 362, 363, 364, 365, 367, 368, 369, 370, 371, 372, 373, 375, 376, 377,
    378, 379, 380, 381, 383, 384, 385, 386, 387, 388, 390, 391, 392, 393, 394, 395, 396, 398, 399, 400,
    401, 402, 403, 405, 406, 407, 408, 409, 411, 412, 413, 414, 415, 416, 418, 419, 420, 421, 422, 424,
    425, 426, 427, 428, 430, 431, 432, 433, 434, 436, 437, 438, 439, 440, 442, 443, 444, 445, 446, 448,
    449, 450, 451, 452, 454, 455, 456, 457, 459, 460, 461, 462, 463, 465, 466, 467, 468, 470, 471, 472,
    473, 475, 476, 477, 478, 480, 481, 482, 483, 485, 486, 487, 488, 490, 491, 492, 493, 495, 496, 497,
    498, 500, 501, 502, 504, 505, 506, 507, 509, 510, 511, 512, 514, 515, 516, 518, 519, 520, 522, 523,
    524, 525, 527, 528, 529, 531, 532, 533, 535, 536, 537, 539, 540, 541, 542, 544, 545, 546, 548, 549,
    550, 552, 553, 554, 556, 557, 559, 560, 561, 563, 564, 565, 567, 568, 569, 571, 572, 573, 575, 576,
    578, 579, 580, 582, 583, 584, 586, 587, 589, 590, 591, 593, 594, 596, 597, 598, 600, 601, 603, 604,
    605, 607, 608, 610, 611, 612, 614, 615, 617, 618, 620, 621, 622, 624, 625, 627, 628, 630, 631, 633,
    634, 636, 637, 638, 640, 641, 643, 644, 646, 647, 649, 650, 652, 653, 655, 656, 658, 659, 661, 662,
    664, 665, 667, 668, 670, 671, 673, 674, 676, 677, 679, 680, 682, 684, 685, 687, 688, 690, 691, 693,
    694, 696, 698, 699, 701, 702, 704, 705, 707, 709, 710, 712, 713, 715, 717, 718, 720, 721, 723, 725,
    726, 728, 730, 731, 733, 734, 736, 738, 739, 741, 743, 744, 746, 748, 749, 751, 753, 754, 756, 758,
    760, 761, 763, 765, 766, 768, 770, 771, 773, 775, 777, 778, 780, 782, 784, 785, 787, 789, 791, 792,
    794, 796, 798, 800, 801, 803, 805, 807, 809, 810, 812, 814, 816, 818, 819, 821, 823, 825, 827, 829,
    831, 832, 834, 836, 838, 840, 842, 844, 846, 848, 849, 851, 853, 855, 857, 859, 861, 863, 865, 867,
    869, 871, 873, 875, 877, 879, 881, 883, 885, 887, 889, 891, 893, 895, 897, 899, 901, 903, 905, 907,
    909, 911, 913, 915, 918, 920, 922, 924, 926, 928, 930, 932, 935, 937, 939, 941, 943, 945, 948, 950,
    952, 954, 957, 959, 961, 963, 966, 968, 970, 972, 975, 977, 979, 982, 984, 986, 988, 991, 993, 996,
    998, 1000, 1003, 1005, 1007, 1010, 1012, 1015, 1017, 1020, 1022, 1025, 1027, 1029, 1032, 1034, 1037, 1040, 1042, 1045,
    1047, 1050, 1052, 1055, 1057, 1060, 1063, 1065, 1068, 1071, 1073, 1076, 1079, 1081, 1084, 1087, 1089, 1092, 1095, 1098,
    1101, 1103, 1106, 1109, 1112, 1115, 1117, 1120, 1123, 1126, 1129, 1132, 1135, 1138, 1141, 1144, 1147, 1150, 1153, 1156,
    1159, 1162, 1165, 1168, 1171, 1174, 1177, 1181, 1184, 1187, 1190, 1193, 1197, 1200, 1203, 1207, 1210, 1213, 1217, 1220,
    1223, 1227, 1230, 1234, 1237, 1241, 1244, 1248, 1251, 1255, 1258, 1262, 1266, 1269, 1273, 1277, 1281, 1284, 1288, 1292,
    1296, 1300, 1304, 1307, 1311, 1315, 1319, 1323, 1327, 1332, 1336, 1340, 1344, 1348, 1352, 1357, 1361, 1365, 1370, 1374,
    1378, 1383, 1387, 1392, 1397, 1401, 1406, 1411, 1415, 1420, 1425, 1430, 1435, 1440, 1444, 1450, 1455, 1460, 1465, 1470,
    1475, 1481, 1486, 1491, 1497, 1502, 1508, 1514, 1519, 1525, 1531, 1537, 1543, 1549, 1555, 1561, 1567, 1573, 1580, 1586,
    1593, 1599, 1606, 1613, 1620, 1627, 1634, 1641, 1648, 1655, 1663, 1670, 1678, 1685, 1693, 1701, 1709, 1717, 1726, 1734,
    1743, 1752, 1760, 1770, 1779, 1788, 1798, 1807, 1817, 1827, 1837, 1848, 1859, 1869, 1881, 1892, 1904, 1915, 1928, 1940,
    1953, 1966, 1979, 1993, 2007, 2022, 2037, 2052, 2068, 2084, 2101, 2119, 2137, 2156, 2175, 2195, 2217, 2239, 2262, 2286,
    2311, 2337, 2365, 2395, 2427, 2460, 2496, 2535, 2577, 2623, 2673, 2729, 2792, 2863, 2947, 3048, 3174, 3342, 3598, 4147
>>

RECURSIVE TanhSearch(_, _, _)
TanhSearch(x, lo, hi) ==
    IF lo >= hi THEN lo
    ELSE LET mid == (lo + hi + 1) \div 2
         IN  IF TanhTable[mid] <= x THEN TanhSearch(x, mid, hi)
             ELSE TanhSearch(x, lo, mid - 1)

\* torch.tanh of one element: the exact tanh rounded to the nearest grid point
Tanh(x) ==
    IF x = NaN THEN NaN
    ELSE IF x < 0 THEN -TanhSearch(-x, 0, Scale)
    ELSE TanhSearch(x, 0, Scale)

\* F.relu of one element
Relu(x) == IF x = NaN THEN NaN ELSE IF x < 0 THEN 0 ELSE x

-----------------------------------------------------------------------------
(* torch's default generator *)

RngMod == 256
RngMul == 5
RngInc == 3

\* the generator advanced by one sample
NextRng(r) == (r * RngMul + RngInc) % RngMod

RECURSIVE Skip(_, _)
\* the generator advanced by k samples
Skip(r, k) == IF k = 0 THEN r ELSE Skip(NextRng(r), k - 1)

\* torch.manual_seed(seed): the generator state is a function of the seed alone
manual_seed(seed) == (seed * 97 + 11) % RngMod

\* the i-th sample of tensor.uniform_(lo, hi) drawn from generator state r
Sample(r, i, lo, hi) == lo + ((hi - lo) * Skip(r, i)) \div RngMod

\* tensor.uniform_(lo, hi) on an out x in matrix, filled in storage order
uniform_(r, out, in, lo, hi) ==
    [ value |-> [j \in 1..out |-> [i \in 1..in |-> Sample(r, (j - 1) * in + i, lo, hi)]],
      rng   |-> Skip(r, out * in) ]

-----------------------------------------------------------------------------
(* Layers *)

\* nn.Linear(in_features, out_features): weight and bias are drawn, in that
\* order, uniformly within 1/sqrt(in_features) of zero
Linear_init(r, in_features, out_features) ==
    LET bound == InvSqrt(in_features)
        w == uniform_(r, out_features, in_features, -bound, bound)
        b == uniform_(w.rng, 1, out_features, -bound, bound)
    IN  [ layer |-> [ in_features  |-> in_features,
                      out_features |-> out_features,
                      weight       |-> w.value,
                      bias         |-> b.value[1] ],
          rng   |-> b.rng ]

BnMomentum == 100
BnEps == 10

\* nn.BatchNorm1d(num_features): draws nothing.  (The batch counter later
\* torch releases keep beside the running statistics plays no part under a
\* fixed momentum and is not modelled.)
BatchNorm1d_init(num_features) ==
    [ num_features |-> num_features,
      weight       |-> [j \in 1..num_features |-> Scale],
      bias         |-> [j \in 1..num_features |-> 0],
      running_mean |-> [j \in 1..num_features |-> 0],
      running_var  |-> [j \in 1..num_features |-> Scale] ]

\* hidden_init(layer): fan_in is the first dimension of the weight, which is
\* stored out_features x in_features
hidden_init(layer) ==
    LET fan_in == Len(layer.weight)
        lim == InvSqrt(fan_in)
    IN  <<-lim, lim>>

FinalLim == 3

NoNet == [kind |-> "None"]

IsActor(net) == net.kind = "Actor"
IsCritic(net) == net.kind = "Critic"

\* the linear layers of a network, in construction order
LinearNames(net) ==
    IF IsActor(net) THEN <<"fc1", "fc2", "fc3">>
    ELSE IF IsCritic(net) THEN <<"fcs1", "fc2", "fc3">>
    ELSE <<>>

Weights(net) == [k \in 1..Len(LinearNames(net)) |-> net[LinearNames(net)[k]].weight]

-----------------------------------------------------------------------------
(* Actor *)

\* Actor.reset_parameters() as it would be if it re-initialised each layer
\* whole (weight and bias) instead of the weight alone
Actor_reset_parameters_bias(net, r) ==
    LET h1 == hidden_init(net.fc1)
        w1 == uniform_(r, net.fc1.out_features, net.fc1.in_features, h1[1], h1[2])
        b1 == uniform_(w1.rng, 1, net.fc1.out_features, h1[1], h1[2])
        h2 == hidden_init(net.fc2)
        w2 == uniform_(b1.rng, net.fc2.out_features, net.fc2.in_features, h2[1], h2[2])
        w3 == uniform_(w2.rng, net.fc3.out_features, net.fc3.in_features, -FinalLim, FinalLim)
    IN  [ net |-> [net EXCEPT !.fc1.weight = w1.value,
                              !.fc1.bias = b1.value[1],
                              !.fc2.weight = w2.value,
                              !.fc3.weight = w3.value],
          rng |-> w3.rng ]

\* Actor.reset_parameters(), drawing from generator state r
Actor_reset_parameters(net, r) ==
    LET h1 == hidden_init(net.fc1)
        w1 == uniform_(r, net.fc1.out_features, net.fc1.in_features, h1[1], h1[2])
        h2 == hidden_init(net.fc2)
        w2 == uniform_(w1.rng, net.fc2.out_features, net.fc2.in_features, h2[1], h2[2])
        w3 == uniform_(w2.rng, net.fc3.out_features, net.fc3.in_features, -FinalLim, FinalLim)
    IN  [ net |-> [net EXCEPT !.fc1.weight = w1.value,
                              !.fc2.weight = w2.value,
                              !.fc3.weight = w3.value],
          rng |-> w3.rng ]

\* Actor(...) as it would be if it kept the seed without seeding the generator
Actor_init_noseed(r, state_size, action_size, seed, fc1_units, fc2_units) ==
    LET l1 == Linear_init(r, state_size, fc1_units)
        l2 == Linear_init(l1.rng, fc1_units, fc2_units)
        l3 == Linear_init(l2.rng, fc2_units, action_size)
        built == [ kind     |-> "Actor",
                   seed     |-> seed,
                   training |-> TRUE,
                   fc1      |-> l1.layer,
                   fc2      |-> l2.layer,
                   fc3      |-> l3.layer ]
    IN  Actor_reset_parameters(built, l3.rng)

\* Actor(state_size, action_size, seed, fc1_units, fc2_units), entered with the
\* generator in state r
Actor_init(r, state_size, action_size, seed, fc1_units, fc2_units) ==
    LET r0 == manual_seed(seed)
        l1 == Linear_init(r0, state_size, fc1_units)
        l2 == Linear_init(l1.rng, fc1_units, fc2_units)
        l3 == Linear_init(l2.rng, fc2_units, action_size)
        built == [ kind     |-> "Actor",
                   seed     |-> seed,
                   training |-> TRUE,
                   fc1      |-> l1.layer,
                   fc2      |-> l2.layer,
                   fc3      |-> l3.layer ]
    IN  Actor_reset_parameters(built, l3.rng)

-----------------------------------------------------------------------------
(* Critic *)

\* Critic.reset_parameters() as it would be if fc3 were initialised like the
\* hidden layers
Critic_reset_parameters_hidden3(net, r) ==
    LET h1 == hidden_init(net.fcs1)
        w1 == uniform_(r, net.fcs1.out_features, net.fcs1.in_features, h1[1], h1[2])
        h2 == hidden_init(net.fc2)
        w2 == uniform_(w1.rng, net.fc2.out_features, net.fc2.in_features, h2[1], h2[2])
        h3 == hidden_init(net.fc3)
        w3 == uniform_(w2.rng, net.fc3.out_features, net.fc3.in_features, h3[1], h3[2])
    IN  [ net |-> [net EXCEPT !.fcs1.weight = w1.value,
                              !.fc2.weight = w2.value,
                              !.fc3.weight = w3.value],
          rng |-> w3.rng ]

\* Critic.reset_parameters() as it would be if it seeded the generator with
\* the network's own seed before drawing
Critic_reset_parameters_reseed(net, r) ==
    LET r0 == manual_seed(net.seed)
        h1 == hidden_init(net.fcs1)
        w1 == uniform_(r0, net.fcs1.out_features, net.fcs1.in_features, h1[1], h1[2])
        h2 == hidden_init(net.fc2)
        w2 == uniform_(w1.rng, net.fc2.out_features, net.fc2.in_features, h2[1], h2[2])
        w3 == uniform_(w2.rng, net.fc3.out_features, net.fc3.in_features, -FinalLim, FinalLim)
    IN  [ net |-> [net EXCEPT !.fcs1.weight = w1.value,
                              !.fc2.weight = w2.value,
                              !.fc3.weight = w3.value],
          rng |-> w3.rng ]

\* Critic.reset_parameters(), drawing from generator state r
Critic_reset_parameters(net, r) ==
    LET h1 == hidden_init(net.fcs1)
        w1 == uniform_(r, net.fcs1.out_features, net.fcs1.in_features, h1[1], h1[2])
        h2 == hidden_init(net.fc2)
        w2 == uniform_(w1.rng, net.fc2.out_features, net.fc2.in_features, h2[1], h2[2])
        w3 == uniform_(w2.rng, net.fc3.out_features, net.fc3.in_features, -FinalLim, FinalLim)
    IN  [ net |-> [net EXCEPT !.fcs1.weight = w1.value,
                              !.fc2.weight = w2.value,
                              !.fc3.weight = w3.value],
          rng |-> w3.rng ]

\* Critic(...) as it would be if fc2 were built for the state features alone
Critic_init_nocat(r, state_size, action_size, seed, fcs1_units, fc2_units) ==
    LET r0 == manual_seed(seed)
        l1 == Linear_init(r0, state_size, fcs1_units)
        l2 == Linear_init(l1.rng, fcs1_units, fc2_units)
        l3 == Linear_init(l2.rng, fc2_units, 1)
        built == [ kind     |-> "Critic",
                   seed     |-> seed,
                   training |-> TRUE,
                   fcs1     |-> l1.layer,
                   bn1      |-> BatchNorm1d_init(fcs1_units),
                   fc2      |-> l2.layer,
                   fc3      |-> l3.layer ]
    IN  Critic_reset_parameters(built, l3.rng)

\* Critic(state_size, action_size, seed, fcs1_units, fc2_units), entered with
\* the generator in state r
Critic_init(r, state_size, action_size, seed, fcs1_units, fc2_units) ==
    LET r0 == manual_seed(seed)
        l1 == Linear_init(r0, state_size, fcs1_units)
        l2 == Linear_init(l1.rng, fcs1_units + action_size, fc2_units)
        l3 == Linear_init(l2.rng, fc2_units, 1)
        built == [ kind     |-> "Critic",
                   seed     |-> seed,
                   training |-> TRUE,
                   fcs1     |-> l1.layer,
                   bn1      |-> BatchNorm1d_init(fcs1_units),
                   fc2      |-> l2.layer,
                   fc3      |-> l3.layer ]
    IN  Critic_reset_parameters(built, l3.rng)

-----------------------------------------------------------------------------
(* Forward computations.  A batch is a sequence of rows, a row a sequence  *)
(* of elements.  A call that raises returns ok = FALSE.                    *)

MapRelu(x) == [n \in 1..Len(x) |-> [j \in 1..Len(x[n]) |-> Relu(x[n][j])]]

MapTanh(x) == [n \in 1..Len(x) |-> [j \in 1..Len(x[n]) |-> Tanh(x[n][j])]]

RECURSIVE Dot(_, _, _)
\* w[1]*x[1] + ... + w[k]*x[k], accumulated left to right
Dot(w, x, k) == IF k = 0 THEN 0 ELSE FAdd(Dot(w, x, k - 1), FMul(w[k], x[k]))

\* layer(x) for a linear layer: F.linear raises unless every row of x has
\* in_features elements
Linear_forward(layer, x) ==
    IF \E n \in 1..Len(x) : Len(x[n]) # layer.in_features
    THEN [ok |-> FALSE, error |-> "size mismatch"]
    ELSE [ok |-> TRUE,
          value |-> [n \in 1..Len(x) |->
                        [j \in 1..layer.out_features |->
                            FAdd(Dot(layer.weight[j], x[n], layer.in_features),
                                 layer.bias[j])]]]

\* Actor.forward(state) as it would be if it returned fc3's output unsquashed
Actor_forward_notanh(net, state) ==
    LET a1 == Linear_forward(net.fc1, state)
    IN  IF ~a1.ok THEN a1
        ELSE LET a2 == Linear_forward(net.fc2, MapRelu(a1.value))
             IN  IF ~a2.ok THEN a2
                 ELSE Linear_forward(net.fc3, MapRelu(a2.value))

\* Actor.forward(state): reads the parameters, writes nothing
Actor_forward(net, state) ==
    LET a1 == Linear_forward(net.fc1, state)
    IN  IF ~a1.ok THEN a1
        ELSE LET a2 == Linear_forward(net.fc2, MapRelu(a1.value))
             IN  IF ~a2.ok THEN a2
                 ELSE LET a3 == Linear_forward(net.fc3, MapRelu(a2.value))
                      IN  IF ~a3.ok THEN a3
                          ELSE [ok |-> TRUE, value |-> MapTanh(a3.value)]

RECURSIVE SumCol(_, _, _)
\* x[1][j] + ... + x[n][j]
SumCol(x, j, n) == IF n = 0 THEN 0 ELSE SumCol(x, j, n - 1) + x[n][j]

RECURSIVE SumSq(_, _, _, _)
\* (x[1][j] - m)^2 + ... + (x[n][j] - m)^2, in units of 1/Scale^2
SumSq(x, j, m, n) ==
    IF n = 0 THEN 0 ELSE SumSq(x, j, m, n - 1) + (x[n][j] - m) * (x[n][j] - m)

\* mean of feature j over the batch
BatchMean(x, j) == SumCol(x, j, Len(x)) \div Len(x)

\* the batch statistics folded into the running ones (momentum 0.1): the
\* running variance takes the unbiased batch variance
UpdatedStats(bn, x) ==
    [bn EXCEPT
        !.running_mean = [j \in 1..bn.num_features |->
            ((Scale - BnMomentum) * bn.running_mean[j]
             + BnMomentum * BatchMean(x, j)) \div Scale],
        !.running_var = [j \in 1..bn.num_features |->
            ((Scale - BnMomentum) * bn.running_var[j]
             + BnMomentum * ((SumSq(x, j, BatchMean(x, j), Len(x)) \div (Len(x) - 1)) \div Scale))
            \div Scale]]

\* (x - mean) / sqrt(var + eps) * weight + bias for one element, var and eps
\* in units of 1/Scale^2
Normalize(bn, j, v, mean, var) ==
    FAdd(FMul(bn.weight[j], ((v - mean) * Scale) \div ISqrt(var + BnEps)), bn.bias[j])

\* the output of the evaluation-mode normalisation: running statistics
EvalOutput(bn, x) ==
    [n \in 1..Len(x) |-> [j \in 1..bn.num_features |->
        Normalize(bn, j, x[n][j], bn.running_mean[j], bn.running_var[j] * Scale)]]

\* the training-mode normalisation as it would be if it normalised with the
\* running statistics
TrainingOutput_running(bn, x) == EvalOutput(bn, x)

\* the output of the training-mode normalisation: batch statistics
TrainingOutput(bn, x) ==
    [n \in 1..Len(x) |-> [j \in 1..bn.num_features |->
        Normalize(bn, j, x[n][j], BatchMean(x, j),
                  SumSq(x, j, BatchMean(x, j), Len(x)) \div Len(x))]]

\* bn(x) as it would be if the running statistics were updated in either mode
BatchNorm1d_forward_anymode(bn, training, x) ==
    IF training
    THEN IF Len(x) = 1
         THEN [ok |-> FALSE, error |-> "one value per channel", bn |-> bn]
         ELSE [ok |-> TRUE, value |-> TrainingOutput(bn, x), bn |-> UpdatedStats(bn, x)]
    ELSE [ok |-> TRUE, value |-> EvalOutput(bn, x),
          bn |-> IF Len(x) = 1 THEN bn ELSE UpdatedStats(bn, x)]

\* bn(x) for nn.BatchNorm1d on an N x num_features batch.  In training mode
\* a batch of one row raises, and otherwise the running statistics are
\* updated and the batch statistics normalise; in evaluation mode the
\* running statistics normalise and nothing is written.  bn is the layer
\* after the call.
BatchNorm1d_forward(bn, training, x) ==
    IF training
    THEN IF Len(x) = 1
         THEN [ok |-> FALSE, error |-> "one value per channel", bn |-> bn]
         ELSE [ok |-> TRUE, value |-> TrainingOutput(bn, x), bn |-> UpdatedStats(bn, x)]
    ELSE [ok |-> TRUE, value |-> EvalOutput(bn, x), bn |-> bn]

\* torch.cat((xs, action), dim=1): raises unless both have as many rows
Cat(xs, action) ==
    IF Len(xs) # Len(action)
    THEN [ok |-> FALSE, error |-> "size mismatch"]
    ELSE [ok |-> TRUE, value |-> [n \in 1..Len(xs) |-> xs[n] \o action[n]]]

\* what Critic.forward computes from the output of bn1: the relu, the
\* concatenation with the action, fc2, the relu and fc3
Critic_after_bn1(net, normalized, action) ==
    LET x == Cat(MapRelu(normalized), action)
    IN  IF ~x.ok THEN x
        ELSE LET a2 == Linear_forward(net.fc2, x.value)
             IN  IF ~a2.ok THEN a2
                 ELSE Linear_forward(net.fc3, MapRelu(a2.value))

\* Critic.forward(state, action).  net is the network after the call: the
\* statements run in order, so what bn1 wrote stays written when a later
\* statement raises.
Critic_forward(net, state, action) ==
    LET a1 == Linear_forward(net.fcs1, state)
    IN  IF ~a1.ok THEN [ok |-> FALSE, error |-> a1.error, net |-> net]
        ELSE
        LET b == BatchNorm1d_forward(net.bn1, net.training, a1.value)
            after == [net EXCEPT !.bn1 = b.bn]
        IN  IF ~b.ok THEN [ok |-> FALSE, error |-> b.error, net |-> after]
            ELSE
            LET q == Critic_after_bn1(net, b.value, action)
            IN  IF ~q.ok THEN [ok |-> FALSE, error |-> q.error, net |-> after]
                ELSE [ok |-> TRUE, value |-> q.value, net |-> after]

-----------------------------------------------------------------------------
(* State after the process has started: no network built yet *)

Threads == {"t1", "t2"}

Idle == [pc |-> "idle"]

NoResult == [status |-> "none"]

Init ==
    /\ sizes \in Sizes
    /\ rng = 0
    /\ nets = [s \in Slots |-> NoNet]
    /\ initial = [s \in Slots |-> <<>>]
    /\ resets = [s \in Slots |-> 0]
    /\ drawnAt = [s \in Slots |-> -1]
    /\ last = [op |-> "none", slot |-> "none"]
    /\ result = NoResult
    /\ calls = [t \in Threads |-> Idle]
    /\ ops = 0
    /\ passes = 0

\* thread t is inside a forward call
InCall(t) == calls[t].pc \notin {"idle", "done"}

\* no forward call is in progress on any thread
Quiet == \A t \in Threads : ~InCall(t)

Built(s) == nets[s].kind # "None"

-----------------------------------------------------------------------------
(* Construction and re-initialisation *)

\* nets[s] = Actor(state_size, action_size, seed, fc1_units, fc2_units)
ConstructActor(s, seed) ==
    /\ ops < MaxOps
    /\ Quiet
    /\ LET c == Actor_init(rng, sizes.state_size, sizes.action_size, seed,
                           sizes.fc1_units, sizes.fc2_units)
       IN  /\ nets' = [nets EXCEPT ![s] = c.net]
           /\ rng' = c.rng
           /\ initial' = [initial EXCEPT ![s] = Weights(c.net)]
    /\ resets' = [resets EXCEPT ![s] = 0]
    /\ drawnAt' = [drawnAt EXCEPT ![s] = -1]
    /\ last' = [op |-> "construct", slot |-> s]
    /\ ops' = ops + 1
    /\ UNCHANGED <<sizes, result, calls, passes>>

\* nets[s] = Critic(state_size, action_size, seed, fcs1_units, fc2_units)
ConstructCritic(s, seed) ==
    /\ ops < MaxOps
    /\ Quiet
    /\ LET c == Critic_init(rng, sizes.state_size, sizes.action_size, seed,
                            sizes.fc1_units, sizes.fc2_units)
       IN  /\ nets' = [nets EXCEPT ![s] = c.net]
           /\ rng' = c.rng
           /\ initial' = [initial EXCEPT ![s] = Weights(c.net)]
    /\ resets' = [resets EXCEPT ![s] = 0]
    /\ drawnAt' = [drawnAt EXCEPT ![s] = -1]
    /\ last' = [op |-> "construct", slot |-> s]
    /\ ops' = ops + 1
    /\ UNCHANGED <<sizes, result, calls, passes>>

\* nets[s].reset_parameters() on an Actor
ResetActor(s) ==
    /\ ops < MaxOps
    /\ Quiet
    /\ IsActor(nets[s])
    /\ LET c == Actor_reset_parameters(nets[s], rng)
       IN  /\ nets' = [nets EXCEPT ![s] = c.net]
           /\ rng' = c.rng
    /\ resets' = [resets EXCEPT ![s] = @ + 1]
    /\ drawnAt' = [drawnAt EXCEPT ![s] = rng]
    /\ last' = [op |-> "reset", slot |-> s]
    /\ ops' = ops + 1
    /\ UNCHANGED <<sizes, initial, result, calls, passes>>

\* nets[s].reset_parameters() on a Critic
ResetCritic(s) ==
    /\ ops < MaxOps
    /\ Quiet
    /\ IsCritic(nets[s])
    /\ LET c == Critic_reset_parameters(nets[s], rng)
       IN  /\ nets' = [nets EXCEPT ![s] = c.net]
           /\ rng' = c.rng
    /\ resets' = [resets EXCEPT ![s] = @ + 1]
    /\ drawnAt' = [drawnAt EXCEPT ![s] = rng]
    /\ last' = [op |-> "reset", slot |-> s]
    /\ ops' = ops + 1
    /\ UNCHANGED <<sizes, initial, result, calls, passes>>

NextInit ==
    \/ \E s \in ActorSlots, seed \in Seeds : ConstructActor(s, seed)
    \/ \E s \in CriticSlots, seed \in Seeds : ConstructCritic(s, seed)
    \/ \E s \in ActorSlots : ResetActor(s)
    \/ \E s \in CriticSlots : ResetCritic(s)

\* constructions and re-initialisations only
SpecInit == Init /\ [][NextInit]_vars

-----------------------------------------------------------------------------
(* Sequential forward calls on networks the harness has built *)

Big == 20000 * Scale

\* element values of the states handed to an Actor
ActorValues == <<0, Scale, -Scale, Big, -Big, FMax, -FMax>>

\* element values of the states and actions handed to a Critic
CriticValues == <<0, 5 * Scale, -5 * Scale, 2 * Scale>>

\* an n x w batch: row i, column j holds the value of vals at place
\* p + 2(i-1) + c(j-1), cyclically
Batch(n, w, vals, p, c) ==
    [i \in 1..n |-> [j \in 1..w |->
        vals[((p - 1 + 2 * (i - 1) + c * (j - 1)) % Len(vals)) + 1]]]

ActorStates ==
    { Batch(n, w, ActorValues, p, c) :
        n \in 1..MaxBatch, w \in {sizes.state_size, sizes.state_size + 1},
        p \in 1..Len(ActorValues), c \in {0, 1} }

\* batches of states of the right width and of a wrong one
CriticStates ==
    { Batch(n, w, CriticValues, 1, 1) :
        n \in 1..MaxBatch, w \in {sizes.state_size, sizes.state_size + 1} }

\* the (state, action) pairs handed to a Critic: every pairing of batch sizes
\* at the right widths, and equal batch sizes with the state or the action
\* one column too wide
CriticArguments ==
    { <<Batch(n, sizes.state_size, CriticValues, 1, 1),
        Batch(m, sizes.action_size, CriticValues, 2, 1)>> :
        n \in 1..MaxBatch, m \in 1..MaxBatch }
    \cup
    { <<Batch(n, sizes.state_size + d, CriticValues, 1, 1),
        Batch(n, sizes.action_size + (1 - d), CriticValues, 2, 1)>> :
        n \in 1..MaxBatch, d \in {0, 1} }

\* what a forward call hands back to its caller
Returned(r) ==
    IF r.ok THEN [status |-> "ok", value |-> r.value]
    ELSE [status |-> "error", error |-> r.error]

\* the harness has built one Actor and one Critic with the same sizes and seed
InitForward ==
    /\ sizes \in Sizes
    /\ \E seed \in Seeds :
          LET a == Actor_init(0, sizes.state_size, sizes.action_size, seed,
                              sizes.fc1_units, sizes.fc2_units)
              c == Critic_init(a.rng, sizes.state_size, sizes.action_size, seed,
                               sizes.fc1_units, sizes.fc2_units)
          IN  /\ nets = [s \in Slots |->
                            IF s = "actor_local" THEN a.net
                            ELSE IF s = "critic_local" THEN c.net
                            ELSE NoNet]
              /\ initial = [s \in Slots |->
                               IF s = "actor_local" THEN Weights(a.net)
                               ELSE IF s = "critic_local" THEN Weights(c.net)
                               ELSE <<>>]
              /\ rng = c.rng
    /\ resets = [s \in Slots |-> 0]
    /\ drawnAt = [s \in Slots |-> -1]
    /\ last = [op |-> "construct", slot |-> "critic_local"]
    /\ result = NoResult
    /\ calls = [t \in Threads |-> Idle]
    /\ ops = 2
    /\ passes = 0

\* result = nets[s](state) on an Actor
ActorForward(s, state) ==
    /\ Quiet
    /\ IsActor(nets[s])
    /\ result' = Returned(Actor_forward(nets[s], state))
    /\ last' = [op |-> "forward", slot |-> s, state |-> state]
    /\ UNCHANGED <<sizes, rng, nets, initial, resets, drawnAt, calls, ops, passes>>

\* result = nets[s](state, action) on a Critic
CriticForward(s, state, action) ==
    /\ Quiet
    /\ IsCritic(nets[s])
    /\ nets[s].training => passes < MaxPasses
    /\ LET r == Critic_forward(nets[s], state, action)
       IN  /\ result' = Returned(r)
           /\ nets' = [nets EXCEPT ![s] = r.net]
    /\ passes' = IF nets[s].training THEN passes + 1 ELSE passes
    /\ last' = [op |-> "forward", slot |-> s, state |-> state, action |-> action]
    /\ UNCHANGED <<sizes, rng, initial, resets, drawnAt, calls, ops>>

\* nets[s].train(mode): mode = FALSE is nets[s].eval()
SetMode(s, mode) ==
    /\ Quiet
    /\ Built(s)
    /\ nets[s].training # mode
    /\ nets' = [nets EXCEPT ![s].training = mode]
    /\ last' = [op |-> "train", slot |-> s]
    /\ UNCHANGED <<sizes, rng, initial, resets, drawnAt, result, calls, ops, passes>>

NextActor ==
    \/ \E s \in ActorSlots, state \in ActorStates : ActorForward(s, state)
    \/ \E s \in ActorSlots : ResetActor(s)
    \/ \E s \in ActorSlots, mode \in BOOLEAN : SetMode(s, mode)

\* forward calls on an Actor whose parameters reset_parameters() may redraw
SpecActor == InitForward /\ [][NextActor]_vars

NextForward ==
    \/ \E s \in ActorSlots, state \in CriticStates : ActorForward(s, state)
    \/ \E s \in CriticSlots, a \in CriticArguments : CriticForward(s, a[1], a[2])
    \/ \E s \in CriticSlots, mode \in BOOLEAN : SetMode(s, mode)

\* forward calls and mode switches, one at a time
SpecForward == InitForward /\ [][NextForward]_vars

-----------------------------------------------------------------------------
(* Forward calls made from several threads on the same networks.  A call   *)
(* on a Critic reads the running statistics and writes them back in        *)
(* separate steps: the in-place update takes no lock.  Parameters are      *)
(* written (mode switches) only while no call is in progress.              *)

\* the well-formed batches of states threads hand over: two rows, the least
\* a training-mode call accepts
SharedStates == { Batch(2, sizes.state_size, CriticValues, p, 1) : p \in {1, 2} }

\* the action batch that goes with a batch of states
SharedAction(state) == Batch(Len(state), sizes.action_size, CriticValues, 2, 1)

\* thread t enters nets[s].forward(state) on an Actor
ActorCall(t, s, state) ==
    /\ ~InCall(t)
    /\ IsActor(nets[s])
    /\ calls' = [calls EXCEPT ![t] =
                    [ pc       |-> "actor",
                      slot     |-> s,
                      state    |-> state,
                      expected |-> Returned(Actor_forward(nets[s], state)) ]]
    /\ UNCHANGED <<sizes, rng, nets, initial, resets, drawnAt, last, result, ops, passes>>

\* thread t computes and returns the Actor's output
ActorReturn(t) ==
    /\ calls[t].pc = "actor"
    /\ calls' = [calls EXCEPT ![t] =
                    [ pc       |-> "done",
                      slot     |-> calls[t].slot,
                      expected |-> calls[t].expected,
                      out      |-> Returned(Actor_forward(nets[calls[t].slot], calls[t].state)) ]]
    /\ UNCHANGED <<sizes, rng, nets, initial, resets, drawnAt, last, result, ops, passes>>

\* thread t enters nets[s].forward(state, action) on a Critic and computes
\* fcs1(state)
CriticCall(t, s, state, action) ==
    /\ ~InCall(t)
    /\ IsCritic(nets[s])
    /\ nets[s].training => passes < MaxPasses
    /\ calls' = [calls EXCEPT ![t] =
                    [ pc       |-> "bn1",
                      slot     |-> s,
                      action   |-> action,
                      x        |-> Linear_forward(nets[s].fcs1, state).value,
                      expected |-> Returned(Critic_forward(nets[s], state, action)) ]]
    /\ passes' = IF nets[s].training THEN passes + 1 ELSE passes
    /\ UNCHANGED <<sizes, rng, nets, initial, resets, drawnAt, last, result, ops>>

\* bn1 reads its parameters and running statistics
BnRead(t) ==
    /\ calls[t].pc = "bn1"
    /\ calls' = [calls EXCEPT ![t] =
                    [ pc       |-> "bn1 read",
                      slot     |-> calls[t].slot,
                      action   |-> calls[t].action,
                      x        |-> calls[t].x,
                      seen     |-> nets[calls[t].slot].bn1,
                      expected |-> calls[t].expected ]]
    /\ UNCHANGED <<sizes, rng, nets, initial, resets, drawnAt, last, result, ops, passes>>

\* bn1 normalises and, in training mode, stores the running statistics it
\* computed from what it read
BnWrite(t) ==
    /\ calls[t].pc = "bn1 read"
    /\ LET s == calls[t].slot
           b == BatchNorm1d_forward(calls[t].seen, nets[s].training, calls[t].x)
       IN  /\ nets' = IF nets[s].training
                      THEN [nets EXCEPT ![s].bn1.running_mean = b.bn.running_mean,
                                        ![s].bn1.running_var = b.bn.running_var]
                      ELSE nets
           /\ calls' = [calls EXCEPT ![t] =
                           [ pc         |-> "bn1 done",
                             slot       |-> s,
                             action     |-> calls[t].action,
                             x          |-> calls[t].x,
                             seen       |-> calls[t].seen,
                             normalized |-> b.value,
                             expected   |-> calls[t].expected ]]
    /\ UNCHANGED <<sizes, rng, initial, resets, drawnAt, last, result, ops, passes>>

\* thread t computes the rest of Critic.forward and returns
CriticReturn(t) ==
    /\ calls[t].pc = "bn1 done"
    /\ calls' = [calls EXCEPT ![t] =
                    [ pc       |-> "done",
                      slot     |-> calls[t].slot,
                      x        |-> calls[t].x,
                      seen     |-> calls[t].seen,
                      expected |-> calls[t].expected,
                      out      |-> Returned(Critic_after_bn1(nets[calls[t].slot],
                                                             calls[t].normalized,
                                                             calls[t].action)) ]]
    /\ UNCHANGED <<sizes, rng, nets, initial, resets, drawnAt, last, result, ops, passes>>

NextConcurrent ==
    \/ \E t \in Threads, s \in ActorSlots :
           ActorCall(t, s, Batch(2, sizes.state_size, CriticValues, 1, 1))
    \/ \E t \in Threads : ActorReturn(t)
    \/ \E t \in Threads, s \in CriticSlots, state \in SharedStates :
           CriticCall(t, s, state, SharedAction(state))
    \/ \E t \in Threads : BnRead(t)
    \/ \E t \in Threads : BnWrite(t)
    \/ \E t \in Threads : CriticReturn(t)
    \/ \E s \in CriticSlots, mode \in BOOLEAN : SetMode(s, mode)

\* forward calls interleaved step by step
SpecConcurrent == InitForward /\ [][NextConcurrent]_vars

-----------------------------------------------------------------------------
(* Helpers of the properties *)

Layers(net) == [k \in 1..Len(LinearNames(net)) |-> net[LinearNames(net)[k]]]

\* every element of matrix m lies in [lo, hi]
AllWithin(m, lo, hi) ==
    \A j \in 1..Len(m) : \A i \in 1..Len(m[j]) : m[j][i] >= lo /\ m[j][i] <= hi

\* the shape of a matrix
Shape(m) == <<Len(m), IF Len(m) = 0 THEN 0 ELSE Len(m[1])>>

\* a network with the weight values of its linear layers blanked: what is
\* left is every bias, the batch normalisation, the mode, the seed and the
\* layers' dimensions
Blank(m) == [j \in 1..Len(m) |-> [i \in 1..Len(m[j]) |-> 0]]

NonWeight(net) ==
    IF IsActor(net)
    THEN [net EXCEPT !.fc1.weight = Blank(@), !.fc2.weight = Blank(@), !.fc3.weight = Blank(@)]
    ELSE IF IsCritic(net)
    THEN [net EXCEPT !.fcs1.weight = Blank(@), !.fc2.weight = Blank(@), !.fc3.weight = Blank(@)]
    ELSE net

\* number of weights in the first k linear layers of a network
RECURSIVE WeightCount(_, _)
WeightCount(net, k) ==
    IF k = 0 THEN 0
    ELSE WeightCount(net, k - 1)
         + Layers(net)[k].out_features * Layers(net)[k].in_features

-----------------------------------------------------------------------------
(* Claims checked under SpecInit *)

\* C1: two Actors constructed with the same seed and the same sizes leave
\* their constructors with identical weights in fc1, fc2 and fc3, whatever
\* constructions or reset_parameters() calls happened before or between.
C1_SameSeedSameInitialWeights ==
    \A a \in ActorSlots, b \in ActorSlots :
        (/\ IsActor(nets[a]) /\ IsActor(nets[b])
         /\ nets[a].seed = nets[b].seed
         /\ \A k \in 1..3 : Shape(initial[a][k]) = Shape(initial[b][k]))
        => initial[a] = initial[b]

\* two Actors with the same seed exist, and between their constructions the
\* first was re-initialised and a Critic was built
C1_Witness ==
    /\ IsActor(nets["actor_local"]) /\ IsActor(nets["actor_target"])
    /\ nets["actor_local"].seed = nets["actor_target"].seed
    /\ resets["actor_local"] = 1 /\ resets["actor_target"] = 0
    /\ IsCritic(nets["critic_local"])
    /\ last = [op |-> "construct", slot |-> "actor_target"]

\* C3: hidden_init(layer) returns (-lim, lim) with lim = 1/sqrt(in_features),
\* for every layer, whether or not its in_features and out_features differ.
C3_HiddenInitUsesInFeatures ==
    \A s \in Slots : \A k \in 1..Len(LinearNames(nets[s])) :
        LET layer == Layers(nets[s])[k]
        IN  hidden_init(layer) = <<-InvSqrt(layer.in_features), InvSqrt(layer.in_features)>>

\* C7: a reset_parameters() call changes nothing but weight values: biases,
\* batch normalisation, mode, seed, dimensions and every other network are
\* as before.
C7_ResetTouchesOnlyWeights ==
    [][ (last'.op = "reset") =>
           \A s \in Slots :
               /\ NonWeight(nets'[s]) = NonWeight(nets[s])
               /\ (s # last'.slot => nets'[s] = nets[s]) ]_vars

\* a network has been re-initialised twice since its construction and holds
\* other weights than its constructor left
C7_Witness ==
    /\ last.op = "reset"
    /\ resets[last.slot] >= 2
    /\ Weights(nets[last.slot]) # initial[last.slot]

\* C8: after construction and after every reset_parameters() call, every fc3
\* weight lies in [-0.003, 0.003] and every fc1/fcs1 and fc2 weight lies
\* within the pair hidden_init returns for its layer.
C8_WeightsWithinBounds ==
    \A s \in Slots :
        Built(s) =>
            /\ AllWithin(Layers(nets[s])[3].weight, -FinalLim, FinalLim)
            /\ \A k \in 1..2 :
                   AllWithin(Layers(nets[s])[k].weight,
                             hidden_init(Layers(nets[s])[k])[1],
                             hidden_init(Layers(nets[s])[k])[2])

\* an Actor fresh from its constructor and a Critic re-initialised since
C8_Witness ==
    /\ \E a \in ActorSlots : IsActor(nets[a]) /\ resets[a] = 0
    /\ \E c \in CriticSlots : IsCritic(nets[c]) /\ resets[c] >= 1

\* C10: reset_parameters() does not seed: it advances the process-wide
\* generator from where it stands by one sample per weight, and the k-th
\* layer's weights are the samples that follow the earlier layers' from that
\* state; networks fresh from constructors given the same seed and sizes
\* hold identical weights.
C10_ResetDrawsFromProcessGenerator ==
    [][ /\ (last'.op = "reset" /\ ops' = ops + 1) =>
              LET net == nets[last'.slot]
                  new == nets'[last'.slot]
              IN  /\ rng' = Skip(rng, WeightCount(net, 3))
                  /\ \A k \in 1..3 :
                         LET layer == Layers(net)[k]
                             lo == IF k = 3 THEN -FinalLim ELSE hidden_init(layer)[1]
                             hi == IF k = 3 THEN FinalLim ELSE hidden_init(layer)[2]
                         IN  \A j \in 1..layer.out_features : \A i \in 1..layer.in_features :
                                 Layers(new)[k].weight[j][i] =
                                     Sample(rng, WeightCount(net, k - 1)
                                                 + (j - 1) * layer.in_features + i, lo, hi)
        /\ (last'.op = "construct") =>
              \A s \in Slots :
                  (/\ nets'[s].kind = nets'[last'.slot].kind
                   /\ nets'[s].seed = nets'[last'.slot].seed
                   /\ resets'[s] = 0)
                  => Weights(nets'[s]) = Weights(nets'[last'.slot]) ]_vars

\* two Actors built with the same seed and sizes left their constructors with
\* identical weights, each called reset_parameters() once, and they differ
C10_Witness ==
    /\ IsActor(nets["actor_local"]) /\ IsActor(nets["actor_target"])
    /\ nets["actor_local"].seed = nets["actor_target"].seed
    /\ initial["actor_local"] = initial["actor_target"]
    /\ resets["actor_local"] = 1 /\ resets["actor_target"] = 1
    /\ Weights(nets["actor_local"]) # Weights(nets["actor_target"])
    /\ drawnAt["actor_local"] # drawnAt["actor_target"]

-----------------------------------------------------------------------------
(* Claims checked under SpecActor *)

\* the last operation was a forward call on an Actor with an N x state_size batch
ActorCalled ==
    /\ last.op = "forward"
    /\ IsActor(nets[last.slot])
    /\ \A n \in 1..Len(last.state) : Len(last.state[n]) = sizes.state_size

\* every element of the batch x satisfies lo < element < hi
AllStrictlyInside(x, lo, hi) ==
    \A n \in 1..Len(x) : \A j \in 1..Len(x[n]) : x[n][j] > lo /\ x[n][j] < hi

\* C2 as stated: Actor.forward returns an N x action_size output whose every
\* element is strictly inside (-1, 1), never exactly -1 or 1.
C2_OutputStrictlyInside ==
    ActorCalled =>
        /\ result.status = "ok"
        /\ Shape(result.value) = <<Len(last.state), sizes.action_size>>
        /\ AllStrictlyInside(result.value, -Scale, Scale)

\* C2 as amended: Actor.forward returns an N x action_size output whose every
\* element is NaN or lies in the closed interval [-1, 1].
C2_OutputInClosedIntervalOrNaN ==
    ActorCalled =>
        /\ result.status = "ok"
        /\ Shape(result.value) = <<Len(last.state), sizes.action_size>>
        /\ \A n \in 1..Len(result.value) : \A j \in 1..Len(result.value[n]) :
               \/ result.value[n][j] = NaN
               \/ result.value[n][j] >= -Scale /\ result.value[n][j] <= Scale

\* an Actor re-initialised since construction returned, for a batch of
\* moderate values (none near the overflow threshold), an output holding
\* exactly 1 or -1 beside an element strictly inside
C2_Witness ==
    /\ ActorCalled
    /\ resets[last.slot] >= 1
    /\ \A n \in 1..Len(last.state) : \A j \in 1..Len(last.state[n]) :
           Abs(last.state[n][j]) <= Big
    /\ result.status = "ok"
    /\ \E n \in 1..Len(result.value) : \E j \in 1..Len(result.value[n]) :
           Abs(result.value[n][j]) = Scale
    /\ \E n \in 1..Len(result.value) : \E j \in 1..Len(result.value[n]) :
           Abs(result.value[n][j]) < Scale

-----------------------------------------------------------------------------
(* Claims checked under SpecForward *)

\* the last operation was a forward call on a Critic
CriticCalled == last.op = "forward" /\ IsCritic(nets[last.slot])

\* x is an n-row batch of rows of width w
IsBatch(x, n, w) == Len(x) = n /\ \A i \in 1..Len(x) : Len(x[i]) = w

C5_CriticOutputShape ==
    \A s \in CriticSlots :
        IsCritic(nets[s]) =>
            /\ nets[s].fc2.in_features = nets[s].fcs1.out_features + sizes.action_size
            /\ (/\ CriticCalled /\ last.slot = s
                /\ IsBatch(last.state, Len(last.state), sizes.state_size)
                /\ IsBatch(last.action, Len(last.state), sizes.action_size)
                /\ Len(last.state) >= (IF nets[s].training THEN 2 ELSE 1))
               => /\ result.status = "ok"
                  /\ IsBatch(result.value, Len(last.state), 1)

\* a training-mode call with the largest batch returned a value
C5_Witness ==
    /\ CriticCalled
    /\ nets[last.slot].training
    /\ IsBatch(last.state, MaxBatch, sizes.state_size)
    /\ IsBatch(last.action, MaxBatch, sizes.action_size)
    /\ result.status = "ok"

\* the batch sizes of state and action differ, or a feature width is wrong
Mismatch(state, action) ==
    \/ Len(state) # Len(action)
    \/ ~IsBatch(state, Len(state), sizes.state_size)
    \/ ~IsBatch(action, Len(action), sizes.action_size)

\* C6: Critic.forward on mismatched arguments raises, returns nothing, and
\* leaves the network's parameters and running statistics unchanged.
C6_MismatchRaisesAndChangesNothing ==
    [][ (/\ last'.op = "forward"
         /\ IsCritic(nets[last'.slot])
         /\ Mismatch(last'.state, last'.action))
        => /\ result'.status = "error"
           /\ nets' = nets ]_vars

-----------------------------------------------------------------------------
(* Claims checked under SpecConcurrent *)

====
